---- MODULE Spec2Model ----
(***************************************************************************)
(* Model of src/util/ajax.js: the mock registry, makeRequest, the mock     *)
(* XMLHttpRequest, getJSON, getArrayBuffer, getImage and getVideo, with the *)
(* events the host environment delivers to a real XMLHttpRequest, to an    *)
(* Image element and to a video element.                                   *)
(***************************************************************************)
EXTENDS Integers, Sequences, FiniteSets, TLC

VARIABLES mockRequest, lastMock, req, built, video

vars == <<mockRequest, lastMock, req, built, video>>

\* Number of operation calls a behaviour issues.
MaxReq == 1

ReqIds == 1..MaxReq

-----------------------------------------------------------------------------
(* JavaScript values.  Every value is a record tagged with its type, so     *)
(* that any two values can be compared.                                     *)

Undefined == [type |-> "undefined"]
Null == [type |-> "null"]

Str(chars) == [type |-> "string", chars |-> chars]
Buf(bytes) == [type |-> "ArrayBuffer", bytes |-> bytes]
Num(n) == [type |-> "number", n |-> n]
Bool(b) == [type |-> "boolean", b |-> b]
Arr(items) == [type |-> "array", items |-> items]

\* ToBoolean of a value: the objects are truthy, the empty string, null and
\* undefined are falsy.
Truthy(v) ==
    CASE v.type = "undefined" -> FALSE
      [] v.type = "null" -> FALSE
      [] v.type = "string" -> v.chars # <<>>
      [] OTHER -> TRUE

\* The response texts a server (or a mock table) may hold.
Texts == { Str(<<>>), Str(<<"[", "7", "]">>), Str(<<"[", "7">>) }

\* The response bytes a server (or a mock table) may hold.
Buffers == { Buf(<<>>), Buf(<<1>>) }

\* The values a mock table may hold under a path.
MockBodies == Texts \cup Buffers \cup {Null}

MockHosts == {"a.test"}
MockPaths == {"/x"}

HostMocks == UNION { [P -> MockBodies] : P \in SUBSET MockPaths }
MockRegistries == UNION { [H -> HostMocks] : H \in SUBSET MockHosts }

\* obj[key] of a JavaScript object: undefined when the key is missing.
Get(obj, key) == IF key \in DOMAIN obj THEN obj[key] ELSE Undefined

\* The statuses a completed real exchange may carry, with their status lines.
Statuses == {200, 204, 300, 404}
StatusTextOf(status) ==
    CASE status = 200 -> Str(<<"OK">>)
      [] status = 204 -> Str(<<"No Content">>)
      [] status = 300 -> Str(<<"Multiple Choices">>)
      [] status = 404 -> Str(<<"Not Found">>)
      [] OTHER -> Str(<<>>)

\* The Cache-Control and Expires headers of a real response (each nullable).
ResponseHeaders ==
    { [cacheControl |-> Null, expires |-> Null],
      [cacheControl |-> Str(<<"max-age=60">>), expires |-> Str(<<"Thu, 01 Jan 2026">>)] }

-----------------------------------------------------------------------------
(* new window.URL(url): the request URLs of the model and what the parser   *)
(* makes of each.  A string with no scheme does not parse: the constructor  *)
(* throws a TypeError.                                                      *)

Urls == { "http://A.test/x", "http://a.test/y", "tiles/x.json" }

ParseURL(url) ==
    CASE url = "http://A.test/x" ->
            [ok |-> TRUE, hostname |-> "a.test", pathname |-> "/x", href |-> "http://a.test/x"]
      [] url = "http://a.test/y" ->
            [ok |-> TRUE, hostname |-> "a.test", pathname |-> "/y", href |-> "http://a.test/y"]
      [] OTHER ->
            [ok |-> FALSE, hostname |-> "", pathname |-> "", href |-> ""]

-----------------------------------------------------------------------------
(* JSON.parse over the alphabet "[", "]", "7": a value is a number (a run   *)
(* of digits) or an array of at most one value.                             *)

RECURSIVE DigitsEnd(_, _)
DigitsEnd(s, i) == IF i <= Len(s) /\ s[i] = "7" THEN DigitsEnd(s, i + 1) ELSE i

RECURSIVE NumberOf(_, _, _)
NumberOf(s, i, j) == IF i >= j THEN 0 ELSE NumberOf(s, i, j - 1) * 10 + 7

RECURSIVE ParseValue(_, _)
ParseValue(s, i) ==
    IF i > Len(s) THEN [ok |-> FALSE, val |-> Undefined, next |-> i]
    ELSE IF s[i] = "7" THEN
        LET j == DigitsEnd(s, i) IN [ok |-> TRUE, val |-> Num(NumberOf(s, i, j)), next |-> j]
    ELSE IF s[i] = "[" THEN
        IF i + 1 <= Len(s) /\ s[i + 1] = "]"
        THEN [ok |-> TRUE, val |-> Arr(<<>>), next |-> i + 2]
        ELSE LET e == ParseValue(s, i + 1) IN
             IF e.ok /\ e.next <= Len(s) /\ s[e.next] = "]"
             THEN [ok |-> TRUE, val |-> Arr(<<e.val>>), next |-> e.next + 1]
             ELSE [ok |-> FALSE, val |-> Undefined, next |-> i]
    ELSE [ok |-> FALSE, val |-> Undefined, next |-> i]

\* String(v), the text JSON.parse is given: a string is itself, any object
\* is "[object ...]", which is no JSON text.
ToText(v) == IF v.type = "string" THEN v.chars ELSE <<"[", "o", "b", "j", "]">>

JSONParse(v) ==
    LET s == ToText(v)
        p == ParseValue(s, 1)
    IN  IF p.ok /\ p.next = Len(s) + 1
        THEN [ok |-> TRUE, val |-> p.val]
        ELSE [ok |-> FALSE, val |-> Undefined]

-----------------------------------------------------------------------------
(* Errors.                                                                  *)

\* An AJAXError that carries the parsed URL's href instead of the url given.
AJAXErrorHref(message, status, url) ==
    [name |-> "AJAXError", message |-> message, status |-> status, url |-> ParseURL(url).href]

AJAXError(message, status, url) ==
    [name |-> "AJAXError", message |-> message, status |-> status, url |-> url]

Error(message) == [name |-> "Error", message |-> message]

SyntaxError == [name |-> "SyntaxError", message |-> Str(<<"Unexpected token">>)]

EmptyBodyMessage == Str(<<"http status 200 returned without content.">>)

transparentPngUrl == Str(<<"data:image/png;base64,iVBORw0KGgo...">>)

-----------------------------------------------------------------------------
(* The request handle: a MockXMLHttpRequest or a window.XMLHttpRequest.     *)

\* openCall and headerCalls are the calls of open and setRequestHeader the
\* handle received (a MockXMLHttpRequest takes them and keeps nothing);
\* withCredentials is the flag of a real request, _withCredentials what the
\* setter of a MockXMLHttpRequest stores.
NoXhr ==
    [kind |-> "none", _url |-> "", _response |-> Undefined, _status |-> Undefined,
     _statusText |-> Undefined, status |-> Num(0), statusText |-> Str(<<>>),
     response |-> Null, headers |-> [cacheControl |-> Null, expires |-> Null],
     responseType |-> "", readyState |-> "unsent",
     openCall |-> Undefined, headerCalls |-> << >>,
     withCredentials |-> Bool(FALSE), _withCredentials |-> Undefined]

\* new MockXMLHttpRequest(url, response)
MockXMLHttpRequest(url, response) ==
    [NoXhr EXCEPT !.kind = "mock", !._url = url, !._response = response]

\* new window.XMLHttpRequest()
XMLHttpRequest == [NoXhr EXCEPT !.kind = "real"]

\* The getters of the handle.  A MockXMLHttpRequest answers from its private
\* fields, a real request from what the exchange produced.
Status(x) == IF x.kind = "mock" THEN x._status ELSE x.status
StatusText(x) == IF x.kind = "mock" THEN x._statusText ELSE x.statusText
Response(x) == IF x.kind = "mock" THEN x._response ELSE x.response

\* The methods a handle has.  MockXMLHttpRequest declares onerror, open,
\* setRequestHeader and send, and nothing else.
MockMethods == {"onerror", "open", "setRequestHeader", "send"}
HasMethod(x, m) == x.kind = "real" \/ m \in MockMethods

\* MockXMLHttpRequest.send, up to the call of the load handler.
MockSend(x) ==
    IF Truthy(x._response)
    THEN [x EXCEPT !._status = Num(200), !.readyState = "done"]
    ELSE [x EXCEPT !._status = Num(404),
                   !._statusText = Str(<<x._url, " mock data is error!">>),
                   !.readyState = "done"]

\* hostMock && hostMock[pathName]
UseMock(reg, hostName, pathName) ==
    hostName \in DOMAIN reg /\ Truthy(Get(reg[hostName], pathName))

\* The request parameters next to the url: the headers (absent, or an object
\* of header names and values) and the credentials mode (absent or one of
\* the two modes).
HeaderNames == {"Authorization", "X-Id"}
HeaderObjects == {Undefined} \cup UNION { [K -> {"v"}] : K \in SUBSET HeaderNames }
CredentialsModes == {Undefined, Str(<<"same-origin">>), Str(<<"include">>)}

\* for (const k in headers): the entries of the object, none when absent.
HeaderEntries(headers) == IF headers = Undefined THEN << >> ELSE headers

\* xhr.setRequestHeader(k, v)
SetRequestHeader(x, k, v) ==
    [x EXCEPT !.headerCalls = [n \in DOMAIN @ \cup {k} |-> IF n = k THEN v ELSE @[n]]]

\* xhr.withCredentials = flag
SetWithCredentials(x, flag) ==
    IF x.kind = "mock" THEN [x EXCEPT !._withCredentials = Bool(flag)]
    ELSE [x EXCEPT !.withCredentials = Bool(flag)]

\* The configuration of makeRequest with the credentials flag set for every
\* mode that is given.
ConfigureAnyCredentials(x, requestParameters) ==
    SetWithCredentials(
        [x EXCEPT !.openCall = [method |-> "GET", url |-> requestParameters.url, async |-> TRUE],
                  !.headerCalls = HeaderEntries(requestParameters.headers)],
        requestParameters.credentials # Undefined)

\* The second half of makeRequest: open, the headers, the credentials flag.
Configure(x, requestParameters) ==
    SetWithCredentials(
        [x EXCEPT !.openCall = [method |-> "GET", url |-> requestParameters.url, async |-> TRUE],
                  !.headerCalls = HeaderEntries(requestParameters.headers)],
        requestParameters.credentials = Str(<<"include">>))

\* makeRequest: the handle for the request, or the exception of the URL
\* constructor.
makeRequest(requestParameters) ==
    LET url == ParseURL(requestParameters.url) IN
    IF ~url.ok THEN [threw |-> TRUE, xhr |-> NoXhr]
    ELSE IF UseMock(mockRequest, url.hostname, url.pathname)
    THEN [threw |-> FALSE,
          xhr |-> Configure(MockXMLHttpRequest(requestParameters.url,
                                               mockRequest[url.hostname][url.pathname]),
                            requestParameters)]
    ELSE [threw |-> FALSE, xhr |-> Configure(XMLHttpRequest, requestParameters)]

\* What the mock table holds for a URL when a request is made: whether there
\* is an entry for its host and path, and the entry's value.
EntryOf(reg, u) ==
    LET url == ParseURL(u) IN
    IF url.ok /\ url.hostname \in DOMAIN reg /\ url.pathname \in DOMAIN reg[url.hostname]
    THEN [present |-> TRUE, body |-> reg[url.hostname][url.pathname]]
    ELSE [present |-> FALSE, body |-> Undefined]

InRange(status) == status.type = "number" /\ status.n >= 200 /\ status.n < 300

\* getJSON's load handler handing the response text on unparsed.
GetJSONOnloadUnparsed(x, url) ==
    IF InRange(Status(x)) /\ Truthy(Response(x))
    THEN [threw |-> FALSE, args |-> <<[err |-> Null, val |-> Response(x)]>>]
    ELSE [threw |-> FALSE,
          args |-> <<[err |-> AJAXError(StatusText(x), Status(x), url), val |-> Undefined]>>]

\* getJSON's load handler with no try/catch around JSON.parse.
GetJSONOnloadNoCatch(x, url) ==
    IF InRange(Status(x)) /\ Truthy(Response(x))
    THEN LET p == JSONParse(Response(x)) IN
         IF p.ok
         THEN [threw |-> FALSE, args |-> <<[err |-> Null, val |-> p.val]>>]
         ELSE [threw |-> TRUE, args |-> <<>>]
    ELSE [threw |-> FALSE,
          args |-> <<[err |-> AJAXError(StatusText(x), Status(x), url), val |-> Undefined]>>]

\* The load handler of getJSON: the arguments of the callback invocation.
GetJSONOnload(x, url) ==
    IF InRange(Status(x)) /\ Truthy(Response(x))
    THEN LET p == JSONParse(Response(x)) IN
         IF p.ok
         THEN [threw |-> FALSE, args |-> <<[err |-> Null, val |-> p.val]>>]
         ELSE [threw |-> FALSE, args |-> <<[err |-> SyntaxError, val |-> Undefined]>>]
    ELSE [threw |-> FALSE,
          args |-> <<[err |-> AJAXError(StatusText(x), Status(x), url), val |-> Undefined]>>]

\* response.byteLength === 0 (byteLength is undefined on a string)
ByteLengthIsZero(v) == v.type = "ArrayBuffer" /\ v.bytes = <<>>

\* getArrayBuffer's load handler without the zero-length test.
GetArrayBufferOnloadNoEmptyTest(x, url) ==
    LET response == Response(x) IN
    IF InRange(Status(x)) /\ Truthy(Response(x))
    THEN IF ~HasMethod(x, "getResponseHeader") THEN [threw |-> TRUE, args |-> <<>>]
         ELSE [threw |-> FALSE,
               args |-> <<[err |-> Null,
                           val |-> [type |-> "object", data |-> response,
                                    cacheControl |-> x.headers.cacheControl,
                                    expires |-> x.headers.expires]]>>]
    ELSE [threw |-> FALSE,
          args |-> <<[err |-> AJAXError(StatusText(x), Status(x), url), val |-> Undefined]>>]

\* The load handler of getArrayBuffer: the arguments of the callback
\* invocation, or the TypeError of reading a property of null or of calling
\* a method the handle does not have.
GetArrayBufferOnload(x, url) ==
    LET response == Response(x) IN
    IF response.type \in {"null", "undefined"} THEN [threw |-> TRUE, args |-> <<>>]
    ELSE IF ByteLengthIsZero(response) /\ Status(x) = Num(200)
    THEN [threw |-> FALSE, args |-> <<[err |-> Error(EmptyBodyMessage), val |-> Undefined]>>]
    ELSE IF InRange(Status(x)) /\ Truthy(Response(x))
    THEN IF ~HasMethod(x, "getResponseHeader") THEN [threw |-> TRUE, args |-> <<>>]
         ELSE [threw |-> FALSE,
               args |-> <<[err |-> Null,
                           val |-> [type |-> "object", data |-> response,
                                    cacheControl |-> x.headers.cacheControl,
                                    expires |-> x.headers.expires]]>>]
    ELSE [threw |-> FALSE,
          args |-> <<[err |-> AJAXError(StatusText(x), Status(x), url), val |-> Undefined]>>]

-----------------------------------------------------------------------------
(* The state of one operation call.                                         *)

NoImg == [state |-> "none", src |-> Undefined, cacheControl |-> Undefined,
          expires |-> Undefined, data |-> Undefined]

\* op: the operation called; entry: what the mock table held for the URL at
\* the call; returned: the call returned its handle; thrown: the call raised
\* an exception; calls: the invocations of the caller's callback, in order,
\* each with whether the operation call was still on the stack; img: the
\* Image of getImage; created, revoked: the arguments and results of
\* createObjectURL and revokeObjectURL; abort: what a call of abort on the
\* handle did.
NoReq ==
    [op |-> "none", url |-> "", entry |-> [present |-> FALSE, body |-> Undefined],
     xhr |-> NoXhr, returned |-> FALSE, thrown |-> FALSE, calls |-> <<>>,
     img |-> NoImg, created |-> <<>>, revoked |-> <<>>, abort |-> "none"]

\* URL.createObjectURL(blob): a fresh blob URL.
CreateObjectURL(r) == Str(<<"blob:", ToString(r)>>)

\* getImage's callback with no fallback for a zero-length buffer.
GetImageCallbackNoFallback(rec, r, a, sync) ==
    IF a.err # Null
    THEN [rec EXCEPT !.calls = Append(@, [err |-> a.err, val |-> Undefined, sync |-> sync])]
    ELSE IF a.val # Undefined
    THEN [rec EXCEPT
            !.img = [state |-> "loading",
                     src |-> CreateObjectURL(r),
                     cacheControl |-> a.val.cacheControl,
                     expires |-> a.val.expires,
                     data |-> a.val.data],
            !.created = Append(@, CreateObjectURL(r))]
    ELSE rec

\* The callback getImage hands to getArrayBuffer, called with (err, imgData).
GetImageCallback(rec, r, a, sync) ==
    IF a.err # Null
    THEN [rec EXCEPT !.calls = Append(@, [err |-> a.err, val |-> Undefined, sync |-> sync])]
    ELSE IF a.val # Undefined
    THEN LET blobbed == a.val.data.bytes # <<>> IN
         [rec EXCEPT
            !.img = [state |-> "loading",
                     src |-> IF blobbed THEN CreateObjectURL(r) ELSE transparentPngUrl,
                     cacheControl |-> a.val.cacheControl,
                     expires |-> a.val.expires,
                     data |-> a.val.data],
            !.created = IF blobbed THEN Append(@, CreateObjectURL(r)) ELSE @]
    ELSE rec

\* The load handler of the operation runs on handle x: the callback
\* invocations and the exception it ends with.
RunOnload(rec, r, x, sync) ==
    LET o == IF rec.op = "getJSON" THEN GetJSONOnload(x, rec.url)
             ELSE GetArrayBufferOnload(x, rec.url)
        withXhr == [rec EXCEPT !.xhr = x, !.thrown = o.threw /\ sync]
    IN  IF o.args = <<>> THEN withXhr
        ELSE IF rec.op = "getImage" THEN GetImageCallback(withXhr, r, o.args[1], sync)
        ELSE [withXhr EXCEPT !.calls = Append(@, [err |-> o.args[1].err,
                                                  val |-> o.args[1].val,
                                                  sync |-> sync])]

\* The error handler reporting the failure as an AJAXError.
RunOnerrorAsAJAXError(rec, r, x) ==
    LET a == [err |-> AJAXError(StatusText(x), Status(x), rec.url), val |-> Undefined]
        withXhr == [rec EXCEPT !.xhr = x]
    IN  IF rec.op = "getImage" THEN GetImageCallback(withXhr, r, a, FALSE)
        ELSE [withXhr EXCEPT !.calls = Append(@, [err |-> a.err, val |-> a.val,
                                                  sync |-> FALSE])]

\* The error handler of the operation: callback(new Error(xhr.statusText)).
RunOnerror(rec, r, x) ==
    LET a == [err |-> Error(StatusText(x)), val |-> Undefined]
        withXhr == [rec EXCEPT !.xhr = x]
    IN  IF rec.op = "getImage" THEN GetImageCallback(withXhr, r, a, FALSE)
        ELSE [withXhr EXCEPT !.calls = Append(@, [err |-> a.err, val |-> a.val,
                                                  sync |-> FALSE])]

\* One call of getJSON, getArrayBuffer or getImage, from makeRequest to the
\* return of the handle.  A mock handle runs the load handler inside send; a
\* real one is sent and completes later.
Call(r, op, url) ==
    LET m == makeRequest([url |-> url, headers |-> Undefined, credentials |-> Undefined])
        rec == [NoReq EXCEPT !.op = op, !.url = url, !.entry = EntryOf(mockRequest, url)]
    IN  IF m.threw THEN [rec EXCEPT !.thrown = TRUE]
        ELSE LET x == IF op = "getJSON"
                      THEN SetRequestHeader(m.xhr, "Accept", "application/json")
                      ELSE [m.xhr EXCEPT !.responseType = "arraybuffer"]
             IN  IF x.kind = "mock"
                 THEN LET done == RunOnload(rec, r, MockSend(x), TRUE)
                      IN  [done EXCEPT !.returned = ~done.thrown]
                 ELSE [rec EXCEPT !.xhr = [x EXCEPT !.readyState = "sent"], !.returned = TRUE]

CanCall(r) == req[r].op = "none" /\ \A q \in 1..(r - 1) : req[q].op # "none"

-----------------------------------------------------------------------------
(* getVideo.                                                                *)

\* The most URLs in one getVideo call, and the most loadstart events one
\* video element fires (the first when its sources are selected, one more
\* for each reload).
MaxUrls == 3
MaxLoadStart == 2

\* window.document.location: the documents the call can run in.
Locations ==
    {[protocol |-> "http:", host |-> "example.com"],
     [protocol |-> "https:", host |-> "example.com"]}

VideoUrls ==
    {"/local/b.mp4", "http://other-origin/a.mp4",
     "https://example.com/c.mp4", "http://example.com/d.mp4"}

UrlLists == UNION {[1..n -> VideoUrls] : n \in 0..MaxUrls}

\* a.href = url on an anchor element: the URL resolved against the document;
\* a relative URL takes the document's protocol and host.
Anchor(url, location) ==
    CASE url = "/local/b.mp4" -> [protocol |-> location.protocol, host |-> location.host]
      [] url = "http://other-origin/a.mp4" -> [protocol |-> "http:", host |-> "other-origin"]
      [] url = "https://example.com/c.mp4" -> [protocol |-> "https:", host |-> "example.com"]
      [] url = "http://example.com/d.mp4" -> [protocol |-> "http:", host |-> "example.com"]

\* sameOrigin comparing the hosts only.
sameOriginHostOnly(url, location) ==
    LET a == Anchor(url, location)
    IN  a.host = location.host

\* sameOrigin(url), with window.document.location as a parameter
sameOrigin(url, location) ==
    LET a == Anchor(url, location)
    IN  a.protocol = location.protocol /\ a.host = location.host

\* window.document.createElement('video')
NewVideo == [sources |-> << >>, crossOrigin |-> Null]

\* The loop of getVideo from index i on.
RECURSIVE AppendSources(_, _, _, _)
AppendSources(v, urls, i, location) ==
    IF i > Len(urls) THEN v
    ELSE LET marked == IF ~sameOrigin(urls[i], location)
                       THEN [v EXCEPT !.crossOrigin = Str(<<"Anonymous">>)]
                       ELSE v
             s == [src |-> urls[i]]
         IN  AppendSources([marked EXCEPT !.sources = Append(@, s)], urls, i + 1, location)

\* exports.getVideo: the element it returns.
getVideo(urls, location) == AppendSources(NewVideo, urls, 1, location)

\* The state of the getVideo call: its arguments and document, the element
\* built, whether it was returned, the loadstart events fired so far,
\* whether its sources failed to load, and the invocations of the callback.
NoVideo ==
    [called |-> FALSE, urls |-> << >>, location |-> [protocol |-> "", host |-> ""],
     element |-> NewVideo, returned |-> FALSE, loadstarts |-> 0,
     failed |-> FALSE, calls |-> << >>]

\* A loadstart handler that reports the event as an error.
VideoOnloadstartAsError(v) ==
    [v EXCEPT !.calls = Append(@, [err |-> Error(Str(<<"loadstart">>)),
                                   val |-> Undefined, sync |-> FALSE])]

\* video.onloadstart: callback(null, video)
VideoOnloadstart(v) ==
    [v EXCEPT !.calls = Append(@, [err |-> Null, val |-> v.element, sync |-> FALSE])]

-----------------------------------------------------------------------------
(* Actions.                                                                 *)

Init ==
    /\ mockRequest = << >>
    /\ lastMock = << >>
    /\ req = [r \in ReqIds |-> NoReq]
    /\ built = [params |-> [url |-> "", headers |-> Undefined, credentials |-> Undefined],
                threw |-> FALSE, xhr |-> NoXhr]
    /\ video = NoVideo

\* setMockRequest merging the new table into the old one.
SetMockRequestMerge(mock) ==
    /\ mockRequest' = [h \in DOMAIN mockRequest \cup DOMAIN mock |->
                          IF h \in DOMAIN mock THEN mock[h] ELSE mockRequest[h]]
    /\ lastMock' = mock
    /\ UNCHANGED <<req, built, video>>

\* exports.setMockRequest
SetMockRequest(mock) ==
    /\ mockRequest' = mock
    /\ lastMock' = mock
    /\ UNCHANGED <<req, built, video>>

\* exports.getJSON
GetJSON(r, url) ==
    /\ CanCall(r)
    /\ req' = [req EXCEPT ![r] = Call(r, "getJSON", url)]
    /\ UNCHANGED <<mockRequest, lastMock, built, video>>

\* exports.getArrayBuffer
GetArrayBuffer(r, url) ==
    /\ CanCall(r)
    /\ req' = [req EXCEPT ![r] = Call(r, "getArrayBuffer", url)]
    /\ UNCHANGED <<mockRequest, lastMock, built, video>>

\* exports.getImage
GetImage(r, url) ==
    /\ CanCall(r)
    /\ req' = [req EXCEPT ![r] = Call(r, "getImage", url)]
    /\ UNCHANGED <<mockRequest, lastMock, built, video>>

\* The load event of a real exchange: it completed with a status, a body of
\* the requested response type and headers (the headers are left out where
\* no handler reads them: getJSON never calls getResponseHeader).
XhrLoad(r, status, body, headers) ==
    /\ req[r].xhr.kind = "real" /\ req[r].xhr.readyState = "sent"
    /\ body \in (IF req[r].xhr.responseType = "arraybuffer" THEN Buffers ELSE Texts)
    /\ req[r].xhr.responseType = "" => headers = NoXhr.headers
    /\ LET x == [req[r].xhr EXCEPT !.status = Num(status),
                                   !.statusText = StatusTextOf(status),
                                   !.response = body, !.headers = headers,
                                   !.readyState = "done"]
       IN  req' = [req EXCEPT ![r] = RunOnload(req[r], r, x, FALSE)]
    /\ UNCHANGED <<mockRequest, lastMock, built, video>>

\* The error event of a real exchange: it could not complete.
XhrError(r) ==
    /\ req[r].xhr.kind = "real" /\ req[r].xhr.readyState = "sent"
    /\ LET x == [req[r].xhr EXCEPT !.readyState = "error"]
       IN  req' = [req EXCEPT ![r] = RunOnerror(req[r], r, x)]
    /\ UNCHANGED <<mockRequest, lastMock, built, video>>

\* The caller calls abort on the handle it was returned.  A real request
\* that is in flight is cancelled and fires neither load nor error; on a
\* completed one abort does nothing; a MockXMLHttpRequest has no abort, and
\* the call is a TypeError.
Abort(r) ==
    /\ req[r].returned
    /\ req' = [req EXCEPT ![r] =
                 IF ~HasMethod(@.xhr, "abort") THEN [@ EXCEPT !.abort = "threw"]
                 ELSE IF @.xhr.readyState = "sent"
                 THEN [@ EXCEPT !.abort = "aborted", !.xhr.readyState = "aborted"]
                 ELSE @]
    /\ UNCHANGED <<mockRequest, lastMock, built, video>>

\* img.onload of getImage: callback(null, img); URL.revokeObjectURL(img.src)
ImgLoad(r) ==
    /\ req[r].img.state = "loading"
    /\ req' = [req EXCEPT ![r] =
                 [@ EXCEPT !.img.state = "loaded",
                           !.calls = Append(@, [err |-> Null,
                                                val |-> [type |-> "image", src |-> req[r].img.src],
                                                sync |-> FALSE]),
                           !.revoked = Append(@, req[r].img.src)]]
    /\ UNCHANGED <<mockRequest, lastMock, built, video>>

\* The error event of the Image (the bytes are no image): getImage sets no
\* handler for it.
ImgError(r) ==
    /\ req[r].img.state = "loading"
    /\ req[r].img.src # transparentPngUrl
    /\ req' = [req EXCEPT ![r] = [@ EXCEPT !.img.state = "failed"]]
    /\ UNCHANGED <<mockRequest, lastMock, built, video>>

Next ==
    \/ \E mock \in MockRegistries : SetMockRequest(mock)
    \/ \E r \in ReqIds, url \in Urls : GetJSON(r, url)
    \/ \E r \in ReqIds, url \in Urls : GetArrayBuffer(r, url)
    \/ \E r \in ReqIds, url \in Urls : GetImage(r, url)
    \/ \E r \in ReqIds, status \in Statuses, body \in Texts \cup Buffers,
          headers \in ResponseHeaders : XhrLoad(r, status, body, headers)
    \/ \E r \in ReqIds : XhrError(r)
    \/ \E r \in ReqIds : Abort(r)
    \/ \E r \in ReqIds : ImgLoad(r)
    \/ \E r \in ReqIds : ImgError(r)

Spec == Init /\ [][Next]_vars

\* makeRequest on its own, for every request parameter value and registry.
MakeRequest(url, headers, credentials) ==
    /\ LET params == [url |-> url, headers |-> headers, credentials |-> credentials]
           m == makeRequest(params)
       IN  built' = [params |-> params, threw |-> m.threw, xhr |-> m.xhr]
    /\ UNCHANGED <<mockRequest, lastMock, req, video>>

NextRequest ==
    \/ \E mock \in MockRegistries : SetMockRequest(mock)
    \/ \E url \in Urls, headers \in HeaderObjects, credentials \in CredentialsModes :
          MakeRequest(url, headers, credentials)

RequestSpec == Init /\ [][NextRequest]_vars

\* exports.getVideo, called in a document at the given location.
GetVideo(urls, location) ==
    /\ ~video.called
    /\ video' = [NoVideo EXCEPT !.called = TRUE, !.urls = urls, !.location = location,
                                !.element = getVideo(urls, location),
                                !.returned = TRUE]
    /\ UNCHANGED <<mockRequest, lastMock, req, built>>

\* The loadstart event of the video: the browser begins to select among the
\* sources (there is nothing to select on an element without sources).
VideoLoadStart ==
    /\ video.returned
    /\ video.element.sources # << >>
    /\ video.loadstarts < MaxLoadStart
    /\ video' = VideoOnloadstart([video EXCEPT !.loadstarts = @ + 1])
    /\ UNCHANGED <<mockRequest, lastMock, req, built>>

\* The error event of the sources (none of them can be played): getVideo
\* sets no handler for it.
VideoSourceError ==
    /\ video.returned
    /\ video.element.sources # << >>
    /\ ~video.failed
    /\ video' = [video EXCEPT !.failed = TRUE]
    /\ UNCHANGED <<mockRequest, lastMock, req, built>>

NextVideo ==
    \/ \E urls \in UrlLists, location \in Locations : GetVideo(urls, location)
    \/ VideoLoadStart
    \/ VideoSourceError

VideoSpec == Init /\ [][NextVideo]_vars

-----------------------------------------------------------------------------
(* Vocabulary of the properties.                                            *)

\* A body that is there and has content: a non-empty text or buffer.
NonEmptyBody(b) ==
    \/ b.type = "string" /\ b.chars # <<>>
    \/ b.type = "ArrayBuffer" /\ b.bytes # <<>>

\* The JSON values of the model's alphabet and the text of each.
JSONAtoms == { Num(7), Num(77), Arr(<<>>) }
JSONValues == JSONAtoms \cup { Arr(<<v>>) : v \in JSONAtoms }

RECURSIVE Digits(_)
Digits(n) ==
    LET d == <<"0", "1", "2", "3", "4", "5", "6", "7", "8", "9">>[(n % 10) + 1]
    IN  IF n < 10 THEN <<d>> ELSE Digits(n \div 10) \o <<d>>

RECURSIVE Stringify(_)
Stringify(v) ==
    CASE v.type = "number" -> Digits(v.n)
      [] v.type = "array" ->
            IF v.items = <<>> THEN <<"[", "]">>
            ELSE <<"[">> \o Stringify(v.items[1]) \o <<"]">>
      [] v.type = "string" -> <<"\"">> \o v.chars \o <<"\"">>
      [] OTHER -> <<>>

\* b is the text of a JSON value.
IsJSONText(b) == b.type = "string" /\ \E v \in JSONValues : Stringify(v) = b.chars

Called(r) == req[r].op # "none"
MockHit(r) == req[r].entry.present /\ NonEmptyBody(req[r].entry.body)

\* The exchange of call r completed with a status (the load event).
Completed(r) == req[r].xhr.readyState = "done"

\* Exactly one callback invocation, carrying error e and no value.
OneError(r, e) ==
    /\ Len(req[r].calls) = 1
    /\ req[r].calls[1].err = e
    /\ req[r].calls[1].val = Undefined

-----------------------------------------------------------------------------
(* C1.  Stated: for every mock registry that maps host h and path p to a    *)
(* non-empty body b, a getJSON call whose URL has hostname h and pathname p *)
(* invokes its callback exactly once, with a null error and the JSON parse  *)
(* of b as value, and performs no real network request.                     *)
C1_AnyBodyParsed ==
    \A r \in ReqIds :
        (req[r].op = "getJSON" /\ MockHit(r)) =>
            /\ req[r].xhr.kind = "mock"
            /\ Len(req[r].calls) = 1
            /\ req[r].calls[1].err = Null
            /\ req[r].calls[1].val \in JSONValues
            /\ Stringify(req[r].calls[1].val) = ToText(req[r].entry.body)

\* C1, amended: the same for every non-empty body b that is the text of a
\* JSON value: the callback is invoked exactly once, with a null error and
\* the value whose JSON text is b, and the request is never a real one.
C1_ValidBodyParsed ==
    \A r \in ReqIds :
        (req[r].op = "getJSON" /\ MockHit(r) /\ IsJSONText(req[r].entry.body)) =>
            /\ req[r].xhr.kind = "mock"
            /\ ~req[r].thrown
            /\ Len(req[r].calls) = 1
            /\ req[r].calls[1].err = Null
            /\ req[r].calls[1].val \in JSONValues
            /\ Stringify(req[r].calls[1].val) = req[r].entry.body.chars

C1_Witness ==
    \E r \in ReqIds :
        /\ req[r].op = "getJSON"
        /\ req[r].entry = [present |-> TRUE, body |-> Str(<<"[", "7", "]">>)]
        /\ req[r].xhr.kind = "mock"
        /\ Len(req[r].calls) = 1
        /\ req[r].calls[1].err = Null
        /\ req[r].calls[1].val = Arr(<<Num(7)>>)

\* C2: for every mock registry that maps host h and path p to a non-empty
\* body b, a getArrayBuffer call to h and p invokes its callback exactly
\* once with a null error and a result whose data is b, and raises no
\* exception.
C2_MockBufferDelivered ==
    \A r \in ReqIds :
        (req[r].op = "getArrayBuffer" /\ MockHit(r)) =>
            /\ ~req[r].thrown
            /\ Len(req[r].calls) = 1
            /\ req[r].calls[1].err = Null
            /\ req[r].calls[1].val.type = "object"
            /\ req[r].calls[1].val.data = req[r].entry.body

\* C3: for every mock registry that has an entry for host h and path p whose
\* body is absent or empty, a getJSON or getArrayBuffer call to h and p
\* yields exactly one AJAXError with status 404 and never reaches the real
\* network.
C3_EmptyEntryIs404 ==
    \A r \in ReqIds :
        (/\ req[r].op \in {"getJSON", "getArrayBuffer"}
         /\ req[r].entry.present
         /\ ~NonEmptyBody(req[r].entry.body)) =>
            /\ req[r].xhr.kind = "mock"
            /\ Len(req[r].calls) = 1
            /\ req[r].calls[1].err.name = "AJAXError"
            /\ req[r].calls[1].err.status = Num(404)

\* C4: for every getJSON or getArrayBuffer call whose real-network exchange
\* completes with a status outside [200,300), the callback receives exactly
\* one AJAXError whose status is that status and whose url is the request's
\* url parameter unchanged, and it never receives a success value.
C4_HttpError ==
    \A r \in ReqIds :
        (/\ req[r].op \in {"getJSON", "getArrayBuffer"}
         /\ req[r].xhr.kind = "real"
         /\ Completed(r)
         /\ (req[r].xhr.status.n < 200 \/ req[r].xhr.status.n >= 300)) =>
            OneError(r, [name |-> "AJAXError", message |-> req[r].xhr.statusText,
                         status |-> req[r].xhr.status, url |-> req[r].url])

C4_Witness ==
    \E r \in ReqIds :
        /\ req[r].op = "getArrayBuffer"
        /\ req[r].url = "http://A.test/x"
        /\ req[r].xhr.kind = "real"
        /\ Completed(r)
        /\ req[r].xhr.status = Num(404)
        /\ OneError(r, [name |-> "AJAXError", message |-> Str(<<"Not Found">>),
                        status |-> Num(404), url |-> "http://A.test/x"])

\* No event of call r is pending: its exchange is over and its image, if
\* any, has loaded or failed.
Settled(r) ==
    /\ Called(r)
    /\ req[r].xhr.readyState # "sent"
    /\ req[r].img.state # "loading"

\* C5: every fetch operation (getJSON, getArrayBuffer, getImage) delivers
\* exactly one outcome through its callback for each call: the callback is
\* invoked at most once, with either an error or a result and never both,
\* and a call with a well-formed URL that was not aborted has that one
\* invocation once no event of it is pending.
C5_ExactlyOneOutcome ==
    \A r \in ReqIds :
        (Called(r) /\ ParseURL(req[r].url).ok) =>
            /\ Len(req[r].calls) <= 1
            /\ \A i \in DOMAIN req[r].calls :
                  (req[r].calls[i].err = Null) # (req[r].calls[i].val = Undefined)
            /\ (Settled(r) /\ req[r].abort # "aborted") => Len(req[r].calls) = 1

\* C6: no call of getJSON, getArrayBuffer or getImage with a well-formed URL
\* raises an exception to its caller, whatever the mock registry holds.
C6_NeverThrows ==
    \A r \in ReqIds : ParseURL(req[r].url).ok => ~req[r].thrown

\* C7: for every getJSON and getArrayBuffer call, mocked or real, the
\* callback is never invoked while the operation call is still on the stack.
C7_CallbackAfterReturn ==
    \A r \in ReqIds :
        req[r].op \in {"getJSON", "getArrayBuffer"} =>
            \A i \in DOMAIN req[r].calls : ~req[r].calls[i].sync

\* C8: the handle returned by getJSON, getArrayBuffer and getImage supports
\* abort for every request, mocked or real: the call of abort succeeds, and
\* after an abort before the exchange completed the callback is never
\* invoked.
C8_AbortSupported ==
    \A r \in ReqIds :
        /\ req[r].abort # "threw"
        /\ req[r].abort = "aborted" => req[r].calls = <<>>

\* C9: a setMockRequest call with a new registry determines the transport of
\* every request issued after it (a call is mocked exactly when the registry
\* last set holds a body for its host and path, and then answers with that
\* body) and changes the outcome of no request issued before it: a request
\* keeps the transport and body chosen when it was issued, and replacing the
\* registry changes no request.
C9_RegistryAtIssue ==
    [][\A r \in ReqIds :
          /\ (~Called(r) /\ req'[r].op # "none" /\ ParseURL(req'[r].url).ok) =>
                LET url == ParseURL(req'[r].url) IN
                /\ (req'[r].xhr.kind = "mock") =
                      (/\ url.hostname \in DOMAIN lastMock
                       /\ url.pathname \in DOMAIN lastMock[url.hostname]
                       /\ Truthy(lastMock[url.hostname][url.pathname]))
                /\ req'[r].xhr.kind = "mock" =>
                      req'[r].xhr._response = lastMock[url.hostname][url.pathname]
                /\ req'[r].xhr.kind # "mock" => req'[r].xhr.kind = "real"
          /\ Called(r) =>
                /\ req'[r].xhr.kind = req[r].xhr.kind
                /\ req'[r].xhr._response = req[r].xhr._response
                /\ req'[r].entry = req[r].entry
          /\ mockRequest' # mockRequest => req'[r] = req[r]
      ]_vars

\* A real request is in flight while the registry, replaced since the call,
\* holds a body for its URL.
C9_Witness ==
    \E r \in ReqIds :
        /\ req[r].xhr.kind = "real"
        /\ req[r].xhr.readyState = "sent"
        /\ UseMock(mockRequest, ParseURL(req[r].url).hostname, ParseURL(req[r].url).pathname)

\* C10: a getArrayBuffer call whose exchange completes with status 200 and
\* a zero-length body invokes its callback exactly once with the empty-body
\* error and never with a success result.
C10_EmptyBodyError ==
    \A r \in ReqIds :
        (/\ req[r].op = "getArrayBuffer"
         /\ Completed(r)
         /\ Status(req[r].xhr) = Num(200)
         /\ Response(req[r].xhr) = Buf(<<>>)) =>
            OneError(r, [name |-> "Error",
                         message |-> Str(<<"http status 200 returned without content.">>)])

C10_Witness ==
    \E r \in ReqIds :
        /\ req[r].op = "getArrayBuffer"
        /\ req[r].xhr.kind = "real"
        /\ Completed(r)
        /\ req[r].xhr.status = Num(200)
        /\ req[r].xhr.response = Buf(<<>>)
        /\ Len(req[r].calls) = 1
        /\ req[r].calls[1].err.name = "Error"

-----------------------------------------------------------------------------
\* The URL, resolved in the document, has the document's protocol and host.
InDocumentOrigin(url, location) ==
    /\ Anchor(url, location).protocol = location.protocol
    /\ Anchor(url, location).host = location.host

\* C13: for every list of URLs, getVideo returns a video element with
\* exactly one source entry per URL, in input order, and the element's
\* crossOrigin is 'Anonymous' exactly when at least one URL of the list is
\* not same-origin with the document (protocol and host both match), also
\* when a same-origin URL follows it; otherwise crossOrigin is left unset.
C13_VideoSources ==
    video.called =>
        /\ video.returned
        /\ Len(video.element.sources) = Len(video.urls)
        /\ \A i \in DOMAIN video.urls : video.element.sources[i].src = video.urls[i]
        /\ video.element.crossOrigin =
              IF \E i \in DOMAIN video.urls : ~InDocumentOrigin(video.urls[i], video.location)
              THEN Str(<<"Anonymous">>)
              ELSE Null

\* A call in a document at http://example.com whose list holds a URL of the
\* same host under another protocol followed by a same-origin URL.
C13_Witness ==
    /\ video.called
    /\ video.location = [protocol |-> "http:", host |-> "example.com"]
    /\ video.urls = <<"https://example.com/c.mp4", "/local/b.mp4">>
    /\ video.element.crossOrigin = Str(<<"Anonymous">>)

\* C14: getVideo returns its handle before any callback invocation, the
\* callback is invoked only for a loadstart event of the video (once per
\* event), every invocation carries a null error and the video element that
\* was returned, and while no loadstart has fired the callback has not been
\* invoked, also when the sources failed: no error is ever delivered.
C14_VideoCallback ==
    /\ video.calls # << >> => video.returned
    /\ Len(video.calls) = video.loadstarts
    /\ \A i \in DOMAIN video.calls :
          /\ ~video.calls[i].sync
          /\ video.calls[i].err = Null
          /\ video.calls[i].val = video.element
    /\ (video.failed /\ video.loadstarts = 0) => video.calls = << >>

\* The sources failed after a loadstart that invoked the callback.
C14_Witness ==
    /\ video.failed
    /\ Len(video.calls) >= 1
    /\ video.calls[1].val.sources # << >>

-----------------------------------------------------------------------------
(* Properties of the image fallback, the decode error, the request          *)
(* configuration, the classification, the object URLs, the transport        *)
(* error and the registry.                                                  *)

\* C11: whenever the buffer fetch under getImage succeeds with a zero-length
\* buffer, the image source is the fixed transparent-pixel data URL, no
\* object URL is created, the image cannot fail to load, and the callback
\* gets no error: once the image has loaded it has been invoked exactly once
\* with a null error and the image.
C11_TransparentFallback ==
    \A r \in ReqIds :
        (req[r].op = "getImage" /\ req[r].img.state # "none" /\ req[r].img.data = Buf(<<>>)) =>
            /\ req[r].img.src = Str(<<"data:image/png;base64,iVBORw0KGgo...">>)
            /\ req[r].created = <<>>
            /\ req[r].img.state \in {"loading", "loaded"}
            /\ req[r].img.state = "loading" => req[r].calls = <<>>
            /\ req[r].img.state = "loaded" =>
                  /\ Len(req[r].calls) = 1
                  /\ req[r].calls[1].err = Null
                  /\ req[r].calls[1].val = [type |-> "image", src |-> req[r].img.src]

C11_Witness ==
    \E r \in ReqIds :
        /\ req[r].op = "getImage"
        /\ req[r].xhr.kind = "real"
        /\ req[r].xhr.status = Num(204)
        /\ req[r].xhr.response = Buf(<<>>)
        /\ req[r].img.state = "loaded"
        /\ req[r].img.src = transparentPngUrl
        /\ Len(req[r].calls) = 1
        /\ req[r].calls[1].err = Null

\* C12: a getJSON call whose exchange completes with status 200 and a
\* non-empty body that is not valid JSON invokes its callback exactly once
\* with the parse error and no value, and no exception escapes the call.
C12_DecodeError ==
    \A r \in ReqIds :
        (/\ req[r].op = "getJSON"
         /\ Completed(r)
         /\ Status(req[r].xhr) = Num(200)
         /\ NonEmptyBody(Response(req[r].xhr))
         /\ ~IsJSONText(Response(req[r].xhr))) =>
            /\ ~req[r].thrown
            /\ Len(req[r].calls) = 1
            /\ req[r].calls[1].err.name = "SyntaxError"
            /\ req[r].calls[1].val = Undefined

C12_Witness ==
    \E r \in ReqIds :
        /\ req[r].op = "getJSON"
        /\ req[r].xhr.kind = "real"
        /\ Completed(r)
        /\ req[r].xhr.status = Num(200)
        /\ req[r].xhr.response = Str(<<"[", "7">>)
        /\ Len(req[r].calls) = 1
        /\ req[r].calls[1].err.name = "SyntaxError"

\* The credentials flag a handle holds.
CredentialsFlag(x) == IF x.kind = "mock" THEN x._withCredentials ELSE x.withCredentials

\* C15: for every request built by makeRequest, the request is opened as a
\* GET to the url parameter, every entry of the headers parameter is set on
\* it (none when headers is absent), and its credentials flag is true
\* exactly when the credentials parameter is 'include'.
C15_RequestConfigured ==
    built.xhr.kind # "none" =>
        /\ built.xhr.openCall = [method |-> "GET", url |-> built.params.url, async |-> TRUE]
        /\ IF built.params.headers = Undefined
           THEN built.xhr.headerCalls = << >>
           ELSE /\ DOMAIN built.xhr.headerCalls = DOMAIN built.params.headers
                /\ \A k \in DOMAIN built.params.headers :
                      built.xhr.headerCalls[k] = built.params.headers[k]
        /\ CredentialsFlag(built.xhr) = Bool(built.params.credentials = Str(<<"include">>))

C15_Witness ==
    /\ built.xhr.kind = "mock"
    /\ built.params.credentials = Str(<<"include">>)
    /\ DOMAIN built.params.headers = HeaderNames
    /\ DOMAIN built.xhr.headerCalls = HeaderNames
    /\ built.xhr._withCredentials = Bool(TRUE)

\* C16: every AJAXError delivered by getJSON or getArrayBuffer carries a
\* status outside [200,300): a completed exchange whose status is in
\* [200,300) is never classified as an HTTP error, whatever its body.
C16_AJAXErrorOutOfRange ==
    \A r \in ReqIds :
        req[r].op \in {"getJSON", "getArrayBuffer"} =>
            \A i \in DOMAIN req[r].calls :
                ("status" \in DOMAIN req[r].calls[i].err) =>
                    (req[r].calls[i].err.status.n < 200 \/ req[r].calls[i].err.status.n >= 300)

\* The object URLs call r has revoked n times.
TimesRevoked(r, u) == Cardinality({ i \in DOMAIN req[r].revoked : req[r].revoked[i] = u })

\* C17: every object URL that getImage creates is revoked exactly once,
\* after the success callback of that call has run: it is never revoked
\* twice, and none is left unrevoked once no event of the call is pending.
C17_ObjectURLRevokedOnce ==
    \A r \in ReqIds :
        \A i \in DOMAIN req[r].created :
            /\ TimesRevoked(r, req[r].created[i]) <= 1
            /\ TimesRevoked(r, req[r].created[i]) = 1 => Len(req[r].calls) = 1
            /\ Settled(r) => TimesRevoked(r, req[r].created[i]) = 1

\* C18: a getJSON or getArrayBuffer call whose exchange fails at transport
\* level invokes its callback exactly once with a plain Error whose message
\* is the transport's status text and which has no status and no url, and
\* the load handler of that request never runs.
C18_TransportError ==
    \A r \in ReqIds :
        (req[r].op \in {"getJSON", "getArrayBuffer"} /\ req[r].xhr.readyState = "error") =>
            /\ Len(req[r].calls) = 1
            /\ req[r].calls[1] = [err |-> [name |-> "Error", message |-> req[r].xhr.statusText],
                                  val |-> Undefined, sync |-> FALSE]
            /\ DOMAIN req[r].calls[1].err = {"name", "message"}
            /\ req[r].xhr.response = Null

C18_Witness ==
    \E r \in ReqIds :
        /\ req[r].op = "getArrayBuffer"
        /\ req[r].xhr.readyState = "error"
        /\ Len(req[r].calls) = 1
        /\ req[r].calls[1].err = [name |-> "Error", message |-> Str(<<>>)]

C20_RevokeOnlyCreated ==
    \A r \in ReqIds :
        \A i \in DOMAIN req[r].revoked :
            \E j \in DOMAIN req[r].created : req[r].created[j] = req[r].revoked[i]

====
